---- MODULE Spec2Model ----
(***************************************************************************)
(* A model of ahkab/utilities.py: the Newton-Raphson convergence checks    *)
(* (convergence_check, voltage_convergence_check,                          *)
(* current_convergence_check, custom_convergence_check), the combinations  *)
(* iterator and the two sweep iterators (lin_axis_iterator,                *)
(* log_axis_iterator).                                                     *)
(*                                                                         *)
(* Numbers are integers (exact arithmetic): the floating point rounding of *)
(* the original is outside the model.  A numpy matrix is a record          *)
(* [rows, cols, el] with el its elements in row-major order; a Python      *)
(* argument is such a record with hasshape = TRUE, or a list (hasshape =   *)
(* FALSE) that the code converts with numpy.mat(numpy.array(.)).           *)
(***************************************************************************)
EXTENDS Integers, Sequences, FiniteSets, TLC

VARIABLES
    kind,       \* how the caller passes the vectors: "matrix", "rows" or "flat"
    x,          \* the iterate, a sequence of numbers
    dx,         \* the last Newton increment
    residuum,   \* the residual
    options,    \* the options module: [ver, vea, ier, iea]
    call,       \* the last call made: [fn, er, ea, eresiduum, p, debug, changed, old]
    ret,        \* what the last call returned (or raised)
    prev,       \* what the same call returned before an option was changed
    cmb,        \* the combinations object (with its chain of sub-iterators)
    cmbOut,     \* the lists its next() calls returned so far
    cmbLast,    \* how its last next() call ended: "list", "StopIteration", "Exception"
    cmbStops,   \* how many next() calls raised StopIteration
    swp,        \* a sweep iterator object
    swpOut,     \* the values its next() calls returned so far
    swpLast,    \* how its last next() call ended: "value" or "StopIteration"
    swpStops    \* how many next() calls raised StopIteration

vars == <<kind, x, dx, residuum, options, call, ret, prev,
          cmb, cmbOut, cmbLast, cmbStops, swp, swpOut, swpLast, swpStops>>

convVars == <<kind, x, dx, residuum, options, call, ret, prev>>
cmbVars == <<cmb, cmbOut, cmbLast, cmbStops>>
swpVars == <<swp, swpOut, swpLast, swpStops>>

---------------------------------------------------------------------------
(* Bounds and input sets *)

MaxLen == 2

XVals == {-1, 0}
DxVals == {-1, 0, 1}
RVals == {-1, 0}
Tols == {0, 1}
Kinds == {"matrix", "rows", "flat"}

VectorsOfLen(S, n) == [1..n -> S]

---------------------------------------------------------------------------
(* numpy *)

Abs(v) == IF v < 0 THEN -v ELSE v

\* A Python argument: a numpy column matrix, or a list (of one-element rows, or
\* of numbers).
Arg(k, v) ==
    IF k = "matrix"
    THEN [hasshape |-> TRUE, nested |-> FALSE, rows |-> Len(v), cols |-> 1, el |-> v]
    ELSE [hasshape |-> FALSE, nested |-> (k = "rows"), rows |-> 0, cols |-> 0, el |-> v]

Matrix(r, c, e) == [hasshape |-> TRUE, nested |-> FALSE, rows |-> r, cols |-> c, el |-> e]

\* numpy.mat(numpy.array(a)): a matrix is kept; a list of n one-element rows is
\* an n x 1 matrix; a list of n numbers is a 1 x n matrix (so is the empty list).
mat_array(a) ==
    IF a.hasshape THEN a
    ELSE IF a.nested /\ Len(a.el) > 0 THEN Matrix(Len(a.el), 1, a.el)
    ELSE Matrix(1, Len(a.el), a.el)

\* M[i, j], 0-based
At(M, i, j) == M.el[i * M.cols + j + 1]

\* The index a slice bound p stands for in a sequence of n items.
SliceIndex(n, p) ==
    IF p < 0 THEN (IF n + p < 0 THEN 0 ELSE n + p)
    ELSE IF p > n THEN n ELSE p

\* M[:p, 0] needs a column 0
ColSliceOK(M) == M.cols > 0

\* M[:p, 0]: the first rows of column 0, a column matrix
ColSlice(M, p) ==
    LET c == SliceIndex(M.rows, p)
    IN Matrix(c, 1, [i \in 1..c |-> At(M, i - 1, 0)])

\* M[p:]: the rows from p on
RowSlice(M, p) ==
    LET c == SliceIndex(M.rows, p)
    IN Matrix(M.rows - c, M.cols,
              [k \in 1..((M.rows - c) * M.cols) |-> M.el[c * M.cols + k]])

\* Broadcasting of one dimension: -1 when the operands do not fit.
BDim(a, b) == IF a = b THEN a ELSE IF a = 1 THEN b ELSE IF b = 1 THEN a ELSE -1

Broadcastable(A, B) == BDim(A.rows, B.rows) >= 0 /\ BDim(A.cols, B.cols) >= 0

\* The element of M that takes part at (i, j) of a broadcast result.
BAt(M, i, j) == At(M, IF M.rows = 1 THEN 0 ELSE i, IF M.cols = 1 THEN 0 ELSE j)

\* A + B (for broadcastable operands)
MatAdd(A, B) ==
    LET r == BDim(A.rows, B.rows)
        c == BDim(A.cols, B.cols)
    IN Matrix(r, c, [k \in 1..(r * c) |->
                       BAt(A, (k - 1) \div c, (k - 1) % c)
                       + BAt(B, (k - 1) \div c, (k - 1) % c)])

\* numpy.zeros(M.shape)
Zeros(M) == Matrix(M.rows, M.cols, [k \in 1..(M.rows * M.cols) |-> 0])

\* numpy.allclose(A, B, rtol, atol), for broadcastable operands:
\* all(|A - B| <= atol + rtol * |B|)
allclose(A, B, rtol, atol) ==
    LET r == BDim(A.rows, B.rows)
        c == BDim(A.cols, B.cols)
    IN \A i \in 0..(r - 1) : \A j \in 0..(c - 1) :
          Abs(BAt(A, i, j) - BAt(B, i, j)) <= atol + rtol * Abs(BAt(B, i, j))

---------------------------------------------------------------------------
(* The convergence checks *)

Returned(v, d) == [err |-> "", verdict |-> v, detail |-> d]
Raised(e) == [err |-> e, verdict |-> FALSE, detail |-> <<>>]
NoReturn == [err |-> "none", verdict |-> FALSE, detail |-> <<>>]

\* The debug loop of custom_convergence_check from row i on, with the results
\* appended so far.
RECURSIVE DebugLoop(_, _, _, _, _, _, _, _)
DebugLoop(X, DX, R, er, ea, eresiduum, i, results) ==
    IF i >= X.rows THEN Returned(\A k \in 1..Len(results) : results[k], results)
    ELSE IF ~(i < DX.rows /\ DX.cols > 0) THEN Raised("IndexError")
    ELSE IF ~(X.cols > 0) THEN Raised("IndexError")
    ELSE IF Abs(At(DX, i, 0)) < er * Abs(At(X, i, 0)) + ea
    THEN IF ~(i < R.rows /\ R.cols > 0) THEN Raised("IndexError")
         ELSE IF Abs(At(R, i, 0)) < eresiduum
              THEN DebugLoop(X, DX, R, er, ea, eresiduum, i + 1, Append(results, TRUE))
              ELSE Returned(FALSE, Append(results, FALSE))
    ELSE Returned(FALSE, Append(results, FALSE))

\* AggregateCheck with the arguments of the first allclose exchanged: the step
\* is compared against the pre-update value x.
AggregateCheck_against_x(X, DX, R, er, ea, eresiduum) ==
    IF ~Broadcastable(X, DX) THEN Raised("ValueError")
    ELSE Returned(allclose(MatAdd(X, DX), X, er, ea)
                  /\ allclose(R, Zeros(R), 0, eresiduum), <<>>)

\* The two allclose calls of the non-debug branch.
AggregateCheck(X, DX, R, er, ea, eresiduum) ==
    IF ~Broadcastable(X, DX) THEN Raised("ValueError")
    ELSE Returned(allclose(X, MatAdd(X, DX), er, ea)
                  /\ allclose(R, Zeros(R), 0, eresiduum), <<>>)

custom_convergence_check(ax, adx, ares, er, ea, eresiduum, debug) ==
    LET X == IF ax.hasshape THEN ax ELSE mat_array(ax)
        DX == IF ax.hasshape THEN adx ELSE mat_array(adx)
        R == IF ax.hasshape THEN ares ELSE mat_array(ares)
    IN IF X.rows # 0
       THEN IF ~debug
            THEN AggregateCheck(X, DX, R, er, ea, eresiduum)
            ELSE DebugLoop(X, DX, R, er, ea, eresiduum, 0, <<>>)
       ELSE Returned(TRUE, <<>>)

voltage_convergence_check(ax, adx, ares, opt, debug) ==
    custom_convergence_check(ax, adx, ares, opt.ver, opt.vea, opt.iea, debug)

\* current_convergence_check without the cross-wiring: the residual is judged
\* against the current tolerance iea.
current_convergence_check_not_crossed(ax, adx, ares, opt, debug) ==
    custom_convergence_check(ax, adx, ares, opt.ier, opt.iea, opt.iea, debug)

current_convergence_check(ax, adx, ares, opt, debug) ==
    custom_convergence_check(ax, adx, ares, opt.ier, opt.iea, opt.vea, debug)

\* convergence_check with debug passed on to the two sub-checks.
convergence_check_forwarding(ax, adx, ares, nv_minus_one, opt, debug) ==
    LET X == IF ax.hasshape THEN ax ELSE mat_array(ax)
        DX == IF ax.hasshape THEN adx ELSE mat_array(adx)
        R == IF ax.hasshape THEN ares ELSE mat_array(ares)
    IN IF ~(ColSliceOK(X) /\ ColSliceOK(DX) /\ ColSliceOK(R)) THEN Raised("IndexError")
       ELSE LET v == voltage_convergence_check(ColSlice(X, nv_minus_one),
                        ColSlice(DX, nv_minus_one), ColSlice(R, nv_minus_one), opt, debug)
                i == current_convergence_check(RowSlice(X, nv_minus_one),
                        RowSlice(DX, nv_minus_one), RowSlice(R, nv_minus_one), opt, debug)
            IN IF v.err # "" THEN v
               ELSE IF i.err # "" THEN i
               ELSE Returned(v.verdict /\ i.verdict, v.detail \o i.detail)

convergence_check(ax, adx, ares, nv_minus_one, opt, debug) ==
    LET X == IF ax.hasshape THEN ax ELSE mat_array(ax)
        DX == IF ax.hasshape THEN adx ELSE mat_array(adx)
        R == IF ax.hasshape THEN ares ELSE mat_array(ares)
    IN IF ~(ColSliceOK(X) /\ ColSliceOK(DX) /\ ColSliceOK(R)) THEN Raised("IndexError")
       ELSE LET v == voltage_convergence_check(ColSlice(X, nv_minus_one),
                        ColSlice(DX, nv_minus_one), ColSlice(R, nv_minus_one), opt, FALSE)
                i == current_convergence_check(RowSlice(X, nv_minus_one),
                        RowSlice(DX, nv_minus_one), RowSlice(R, nv_minus_one), opt, FALSE)
            IN IF v.err # "" THEN v
               ELSE IF i.err # "" THEN i
               ELSE Returned(v.verdict /\ i.verdict, v.detail \o i.detail)

---------------------------------------------------------------------------
(* The callers of the convergence checks *)

NoCall == [fn |-> "none", er |-> 0, ea |-> 0, eresiduum |-> 0, p |-> 0,
           debug |-> FALSE, changed |-> "", old |-> 0]

NoOptions == [ver |-> 0, vea |-> 0, ier |-> 0, iea |-> 0]

OptionSets == [ver : Tols, vea : Tols, ier : Tols, iea : Tols]

\* The check named fn on the caller's vectors under the options opt.
Rerun(fn, opt, debug) ==
    IF fn = "voltage"
    THEN voltage_convergence_check(Arg(kind, x), Arg(kind, dx), Arg(kind, residuum), opt, debug)
    ELSE current_convergence_check(Arg(kind, x), Arg(kind, dx), Arg(kind, residuum), opt, debug)

CallCustom(er, ea, eresiduum, debug) ==
    /\ call.fn = "none"
    /\ call' = [NoCall EXCEPT !.fn = "custom", !.er = er, !.ea = ea,
                              !.eresiduum = eresiduum, !.debug = debug]
    /\ ret' = custom_convergence_check(Arg(kind, x), Arg(kind, dx), Arg(kind, residuum),
                                       er, ea, eresiduum, debug)
    /\ UNCHANGED <<kind, x, dx, residuum, options, prev, cmbVars, swpVars>>

CallVoltage(debug) ==
    /\ call.fn = "none"
    /\ call' = [NoCall EXCEPT !.fn = "voltage", !.debug = debug]
    /\ ret' = Rerun("voltage", options, debug)
    /\ UNCHANGED <<kind, x, dx, residuum, options, prev, cmbVars, swpVars>>

CallCurrent(debug) ==
    /\ call.fn = "none"
    /\ call' = [NoCall EXCEPT !.fn = "current", !.debug = debug]
    /\ ret' = Rerun("current", options, debug)
    /\ UNCHANGED <<kind, x, dx, residuum, options, prev, cmbVars, swpVars>>

CallConvergence(p, debug) ==
    /\ call.fn = "none"
    /\ call' = [NoCall EXCEPT !.fn = "convergence", !.p = p, !.debug = debug]
    /\ ret' = convergence_check(Arg(kind, x), Arg(kind, dx), Arg(kind, residuum),
                                p, options, debug)
    /\ UNCHANGED <<kind, x, dx, residuum, options, prev, cmbVars, swpVars>>

\* The configuration collaborator sets one option (iea or vea) to another value
\* and the caller repeats its voltage or current check on the same vectors.
ChangeOptionAndRecheck(name, v) ==
    /\ call.fn \in {"voltage", "current"}
    /\ call.changed = ""
    /\ v # options[name]
    /\ options' = [options EXCEPT ![name] = v]
    /\ prev' = ret
    /\ ret' = Rerun(call.fn, options', call.debug)
    /\ call' = [call EXCEPT !.changed = name, !.old = options[name]]
    /\ UNCHANGED <<kind, x, dx, residuum, cmbVars, swpVars>>

---------------------------------------------------------------------------
(* class combinations *)

MaxN == 4
MaxStops == 2

\* No combinations object, no sweep iterator
NoCmb == <<>>
NoSwp == [type |-> "none", max |-> 0, min |-> 0, nsteps |-> 0, inc |-> 0,
          index |-> 0, current |-> 0]

\* A combinations object is the sequence of the objects along its _sub_iter
\* chain: cmb[1] is the object itself, cmb[d + 1] is cmb[d]._sub_iter, and the
\* _sub_iter of the last one is None.  Each object is [L, k, i] (i for _i).

\* combinations.__init__: the object, or the exception it raises.
combinations_init(L, k) ==
    IF Len(L) < k THEN [raised |-> TRUE, obj |-> [L |-> L, k |-> k, i |-> 0]]
    ELSE IF k <= 0 THEN [raised |-> TRUE, obj |-> [L |-> L, k |-> k, i |-> 0]]
    ELSE [raised |-> FALSE, obj |-> [L |-> L, k |-> k, i |-> 0]]

\* self.L[self._i + 1:]
Rest(self) == SubSeq(self.L, self.i + 2, Len(self.L))

\* Exhausted with > for >=: one more start position is tried.
Exhausted_one_late(self) == self.i > Len(self.L) - self.k

\* The test that ends the iteration when the sub-iterator is exhausted.
Exhausted(self) == self.i >= Len(self.L) - self.k

CmbResult(chain, tag, val) == [chain |-> chain, tag |-> tag, val |-> val]

\* next() of the object at depth d of the chain.
RECURSIVE combinations_next(_, _)
combinations_next(chain, d) ==
    LET self == chain[d]
    IN IF self.k > 1
       THEN LET made == combinations_init(Rest(self), self.k - 1)
                withSub == IF Len(chain) = d THEN Append(chain, made.obj) ELSE chain
            IN IF Len(chain) = d /\ made.raised THEN CmbResult(chain, "Exception", <<>>)
               ELSE LET r == combinations_next(withSub, d + 1)
                    IN IF r.tag = "list"
                       THEN CmbResult(r.chain, "list", <<self.L[self.i + 1]>> \o r.val)
                       ELSE IF r.tag = "Exception" THEN r
                       ELSE IF Exhausted(self) THEN r
                       ELSE LET moved == [self EXCEPT !.i = self.i + 1]
                                again == combinations_init(Rest(moved), moved.k - 1)
                            IN IF again.raised
                               THEN CmbResult([r.chain EXCEPT ![d] = moved], "Exception", <<>>)
                               ELSE combinations_next(
                                       SubSeq(r.chain, 1, d - 1) \o <<moved, again.obj>>, d)
       ELSE IF self.i < Len(self.L)
            THEN CmbResult([chain EXCEPT ![d] = [self EXCEPT !.i = self.i + 1]],
                           "list", <<self.L[self.i + 1]>>)
            ELSE CmbResult(chain, "StopIteration", <<>>)

\* One next() call on the object.  Calls go on after exhaustion, up to MaxStops
\* of them; an exception other than StopIteration ends the run.
CmbNext ==
    /\ cmb # NoCmb
    /\ cmbLast # "Exception"
    /\ cmbStops < MaxStops
    /\ LET r == combinations_next(cmb, 1)
       IN /\ cmb' = r.chain
          /\ cmbLast' = r.tag
          /\ cmbOut' = IF r.tag = "list" THEN Append(cmbOut, r.val) ELSE cmbOut
          /\ cmbStops' = IF r.tag = "StopIteration" THEN cmbStops + 1 ELSE cmbStops
    /\ UNCHANGED <<convVars, swpVars>>

---------------------------------------------------------------------------
(* class lin_axis_iterator, class log_axis_iterator *)

MaxVal == 4
MaxSteps == 3
MaxRatio == 3

RECURSIVE Pow(_, _)
Pow(b, e) == IF e = 0 THEN 1 ELSE b * Pow(b, e - 1)

\* 10 ** ((log10(max) - log10(min)) / nsteps): the nsteps-th root of max/min,
\* for the arguments where it is a whole number.
LogInc(max, min, nsteps) == CHOOSE r \in 1..max : min * Pow(r, nsteps) = max

log_axis_iterator_init(max, min, nsteps) ==
    [type |-> "log", max |-> max, min |-> min, nsteps |-> nsteps,
     inc |-> LogInc(max, min, nsteps), index |-> 0, current |-> min]

\* (max - min) / nsteps, the division of two Python 2 integers
lin_axis_iterator_init(max, min, nsteps) ==
    [type |-> "lin", max |-> max, min |-> min, nsteps |-> nsteps,
     inc |-> (max - min) \div nsteps, index |-> 0, current |-> min]

SwpResult(self, tag) == [self |-> self, tag |-> tag]

log_axis_iterator_next(self) ==
    IF self.index >= self.nsteps THEN SwpResult(self, "StopIteration")
    ELSE SwpResult([self EXCEPT !.current = self.current * self.inc,
                                !.index = self.index + 1], "value")

lin_axis_iterator_next(self) ==
    IF self.index = 0
    THEN SwpResult([self EXCEPT !.index = self.index + 1], "value")
    ELSE IF self.index < self.nsteps
    THEN SwpResult([self EXCEPT !.current = self.current + self.inc,
                                !.index = self.index + 1], "value")
    ELSE SwpResult(self, "StopIteration")

None == [none |-> TRUE, val |-> 0]
Some(v) == [none |-> FALSE, val |-> v]

log_axis_iterator_getitem(self, i) ==
    IF i = 0 THEN Some(self.min)
    ELSE IF i < self.nsteps THEN Some(self.min * Pow(self.inc, i))
    ELSE None

lin_axis_iterator_getitem(self, i) ==
    IF i < self.nsteps THEN Some(self.min + self.inc * i) ELSE None

\* One next() call on the sweep iterator; the value returned is self.current.
SwpNext ==
    /\ swp.type # "none"
    /\ swpStops < MaxStops
    /\ LET r == IF swp.type = "log" THEN log_axis_iterator_next(swp)
                ELSE lin_axis_iterator_next(swp)
       IN /\ swp' = r.self
          /\ swpLast' = r.tag
          /\ swpOut' = IF r.tag = "value" THEN Append(swpOut, r.self.current) ELSE swpOut
          /\ swpStops' = IF r.tag = "StopIteration" THEN swpStops + 1 ELSE swpStops
    /\ UNCHANGED <<convVars, cmbVars>>

---------------------------------------------------------------------------
(* Idle values of the parts a specification does not exercise *)

ConvIdle ==
    /\ kind = "matrix" /\ x = <<>> /\ dx = <<>> /\ residuum = <<>>
    /\ options = NoOptions /\ call = NoCall /\ ret = NoReturn /\ prev = NoReturn

CmbIdle == cmb = NoCmb /\ cmbOut = <<>> /\ cmbLast = "" /\ cmbStops = 0

SwpIdle == swp = NoSwp /\ swpOut = <<>> /\ swpLast = "" /\ swpStops = 0

---------------------------------------------------------------------------
(* Specifications of the convergence checks *)

\* custom_convergence_check on three vectors of one length.
InitCustom ==
    /\ kind \in Kinds
    /\ \E n \in 0..MaxLen :
          /\ x \in VectorsOfLen(XVals, n)
          /\ dx \in VectorsOfLen(DxVals, n)
          /\ residuum \in VectorsOfLen(RVals, n)
    /\ options = NoOptions
    /\ call = NoCall /\ ret = NoReturn /\ prev = NoReturn
    /\ CmbIdle /\ SwpIdle

NextCustom ==
    \E er \in Tols, ea \in Tols, eresiduum \in Tols, debug \in BOOLEAN :
        CallCustom(er, ea, eresiduum, debug)

SpecCustom == InitCustom /\ [][NextCustom]_vars

\* The checks that read the options, on three vectors of one length and a
\* partition index within the vectors.
InitConv ==
    /\ kind \in Kinds
    /\ \E n \in 0..MaxLen :
          /\ x \in VectorsOfLen(XVals, n)
          /\ dx \in VectorsOfLen(DxVals, n)
          /\ residuum \in VectorsOfLen(RVals, n)
    /\ options \in OptionSets
    /\ call = NoCall /\ ret = NoReturn /\ prev = NoReturn
    /\ CmbIdle /\ SwpIdle

NextConv == \E p \in 0..Len(x), debug \in BOOLEAN : CallConvergence(p, debug)

SpecConv == InitConv /\ [][NextConv]_vars

\* The voltage and the current check on the same vectors, repeated after one
\* option was changed.
NextCross ==
    \/ \E debug \in BOOLEAN : CallVoltage(debug)
    \/ \E debug \in BOOLEAN : CallCurrent(debug)
    \/ \E name \in {"iea", "vea"}, v \in Tols : ChangeOptionAndRecheck(name, v)

SpecCross == InitConv /\ [][NextCross]_vars

\* The same checks on inputs of any shape: vectors of different lengths and
\* partition indices outside the vectors.
InitShape ==
    /\ kind \in Kinds
    /\ \E n \in 0..MaxLen : x \in VectorsOfLen(XVals, n)
    /\ \E n \in 0..MaxLen : dx \in VectorsOfLen(DxVals, n)
    /\ \E n \in 0..MaxLen : residuum \in VectorsOfLen(RVals, n)
    /\ \E t \in Tols : options = [ver |-> t, vea |-> t, ier |-> t, iea |-> t]
    /\ call = NoCall /\ ret = NoReturn /\ prev = NoReturn
    /\ CmbIdle /\ SwpIdle

NextShape ==
    \/ \E debug \in BOOLEAN : CallVoltage(debug)
    \/ \E debug \in BOOLEAN : CallCurrent(debug)
    \/ \E p \in (0 - MaxLen - 1)..(MaxLen + 1), debug \in BOOLEAN : CallConvergence(p, debug)

SpecShape == InitShape /\ [][NextShape]_vars

---------------------------------------------------------------------------
(* Specifications of the iterators *)

\* The lists of n distinct elements
DistinctLists(n) ==
    {L \in [1..n -> 1..MaxN] : \A a, b \in 1..n : a # b => L[a] # L[b]}

\* combinations(L, k) for a list of distinct elements and 1 <= k <= len(L)
InitCmb ==
    /\ \E n \in 1..MaxN : \E L \in DistinctLists(n) : \E k \in 1..n :
          cmb = <<combinations_init(L, k).obj>>
    /\ cmbOut = <<>> /\ cmbLast = "" /\ cmbStops = 0
    /\ ConvIdle /\ SwpIdle

SpecCmb == InitCmb /\ [][CmbNext]_vars

\* The caller goes on calling next() until it has seen MaxStops StopIterations.
SpecCmbFair == SpecCmb /\ WF_vars(CmbNext)

\* A linear sweep between two whole numbers, or a logarithmic sweep from min to
\* min * ratio^nsteps, in nsteps >= 1 steps
InitSwp ==
    /\ \/ \E max \in 0..MaxVal, min \in 0..MaxVal, nsteps \in 1..MaxSteps :
             swp = lin_axis_iterator_init(max, min, nsteps)
       \/ \E min \in 1..MaxVal, ratio \in 1..MaxRatio, nsteps \in 1..MaxSteps :
             swp = log_axis_iterator_init(min * Pow(ratio, nsteps), min, nsteps)
    /\ swpOut = <<>> /\ swpLast = "" /\ swpStops = 0
    /\ ConvIdle /\ CmbIdle

SpecSwp == InitSwp /\ [][SwpNext]_vars

---------------------------------------------------------------------------
(* The tests of the specification, stated on the caller's vectors *)

\* |dx[i]| <= relTol*|x[i] + dx[i]| + absTol
StepOK(i, relTol, absTol) == Abs(dx[i]) <= relTol * Abs(x[i] + dx[i]) + absTol

\* |residuum[i]| <= residualAbsTol
ResidualOK(i, residualAbsTol) == Abs(residuum[i]) <= residualAbsTol

\* The aggregate check of the indices I
AggregateOK(I, relTol, absTol, residualAbsTol) ==
    /\ \A i \in I : StepOK(i, relTol, absTol)
    /\ \A i \in I : ResidualOK(i, residualAbsTol)

\* ok_i of the diagnostic mode
DiagOK(i, relTol, absTol, residualAbsTol) ==
    /\ Abs(dx[i]) < relTol * Abs(x[i]) + absTol
    /\ Abs(residuum[i]) < residualAbsTol

\* The detail list of the diagnostic mode: TRUE up to the first failing index,
\* FALSE there, and nothing after it.
DiagDetail(relTol, absTol, residualAbsTol) ==
    LET failing == {i \in 1..Len(x) : ~DiagOK(i, relTol, absTol, residualAbsTol)}
    IN IF failing = {} THEN [i \in 1..Len(x) |-> TRUE]
       ELSE LET k == CHOOSE i \in failing : \A j \in failing : i <= j
            IN [i \in 1..k |-> i < k]

SameLengths == Len(x) = Len(dx) /\ Len(x) = Len(residuum)

---------------------------------------------------------------------------
(* C1 *)

\* C1: on non-empty vectors of one length, custom_convergence_check with
\* debug=False returns (b, []) where b is true exactly when every index passes
\* |dx[i]| <= relTol*|x[i]+dx[i]| + absTol and every index passes
\* |residuum[i]| <= residualAbsTol.
C1_AggregateMode ==
    (call.fn = "custom" /\ ~call.debug /\ Len(x) >= 1)
        => ret = Returned(AggregateOK(1..Len(x), call.er, call.ea, call.eresiduum), <<>>)

\* A call where exactly one index exceeds the step tolerance, every residual
\* passes and the verdict is false.
C1_Witness ==
    /\ call.fn = "custom" /\ ~call.debug /\ Len(x) = 2
    /\ Cardinality({i \in 1..2 : ~StepOK(i, call.er, call.ea)}) = 1
    /\ \A i \in 1..2 : ResidualOK(i, call.eresiduum)
    /\ ret = Returned(FALSE, <<>>)

---------------------------------------------------------------------------
(* C2 *)

\* C2: on a non-empty input, custom_convergence_check with debug=True returns
\* the detail list that is true up to the first index whose ok_i is false, false
\* there and ends there (or is all true, one entry per index), and the verdict
\* is true exactly when no index fails.
C2_DiagnosticMode ==
    (call.fn = "custom" /\ call.debug /\ Len(x) >= 1)
        => LET d == DiagDetail(call.er, call.ea, call.eresiduum)
           IN ret = Returned(\A i \in 1..Len(d) : d[i], d)

\* The same statement for the inputs that are columns: a numpy column matrix or
\* a list of one-element rows.
C2_DiagnosticModeOnColumns ==
    (call.fn = "custom" /\ call.debug /\ Len(x) >= 1 /\ kind # "flat")
        => LET d == DiagDetail(call.er, call.ea, call.eresiduum)
           IN ret = Returned(\A i \in 1..Len(d) : d[i], d)

---------------------------------------------------------------------------
(* C5 *)

\* C5: on empty vectors custom_convergence_check returns (true, []) for every
\* choice of tolerances and for either value of debug, and raises nothing.
C5_EmptyVectors ==
    (call.fn = "custom" /\ Len(x) = 0) => ret = Returned(TRUE, <<>>)

\* The same statement for the empty column matrix (shape (0, 1)).
C5_EmptyMatrix ==
    (call.fn = "custom" /\ Len(x) = 0 /\ kind = "matrix") => ret = Returned(TRUE, <<>>)

---------------------------------------------------------------------------
(* C3 *)

\* C3: for vectors of one length n and a partition index p in 0..n,
\* convergence_check returns the conjunction of the aggregate check of the
\* indices before p with (ver, vea, iea) and the aggregate check of the indices
\* from p on with (ier, iea, vea), and the empty detail list.
C3_Partition ==
    (call.fn = "convergence" /\ SameLengths /\ call.p \in 0..Len(x))
        => ret = Returned(
                   /\ AggregateOK(1..call.p, options.ver, options.vea, options.iea)
                   /\ AggregateOK((call.p + 1)..Len(x), options.ier, options.iea, options.vea),
                   <<>>)

\* The same statement for non-empty columns.
C3_PartitionOnColumns ==
    (call.fn = "convergence" /\ SameLengths /\ call.p \in 0..Len(x)
       /\ kind # "flat" /\ Len(x) >= 1)
        => ret = Returned(
                   /\ AggregateOK(1..call.p, options.ver, options.vea, options.iea)
                   /\ AggregateOK((call.p + 1)..Len(x), options.ier, options.iea, options.vea),
                   <<>>)

---------------------------------------------------------------------------
(* C6 *)

\* The current-side check convergence_check makes: on the rows from p on.
CurrentSide ==
    LET X == mat_array(Arg(kind, x))
        DX == mat_array(Arg(kind, dx))
        R == mat_array(Arg(kind, residuum))
    IN current_convergence_check(RowSlice(X, call.p), RowSlice(DX, call.p),
                                 RowSlice(R, call.p), options, FALSE)

\* C6: with the partition index n = len(x) the current-side check returns
\* (true, []) and the verdict is that of voltage_convergence_check on the whole
\* vectors; with the partition index 0 the verdict is that of
\* current_convergence_check on the whole vectors.
C6_EmptyPartition ==
    /\ (call.fn = "convergence" /\ SameLengths /\ call.p = Len(x))
          => /\ ret.err = ""
             /\ CurrentSide = Returned(TRUE, <<>>)
             /\ ret.verdict = Rerun("voltage", options, FALSE).verdict
    /\ (call.fn = "convergence" /\ SameLengths /\ call.p = 0)
          => /\ ret.err = ""
             /\ ret.verdict = Rerun("current", options, FALSE).verdict

\* The same statement for non-empty columns.
C6_EmptyPartitionOnColumns ==
    (kind # "flat" /\ Len(x) >= 1) => C6_EmptyPartition

---------------------------------------------------------------------------
(* C4 *)

\* The options before ChangeOptionAndRecheck changed one.
OldOptions == [options EXCEPT ![call.changed] = call.old]

\* Every index passes the step test that the check fn applies under opt: the
\* aggregate test, or the diagnostic one when the call has debug set.
StepsPass(fn, opt) ==
    LET relTol == IF fn = "voltage" THEN opt.ver ELSE opt.ier
        absTol == IF fn = "voltage" THEN opt.vea ELSE opt.iea
    IN \A i \in 1..Len(x) :
          IF call.debug THEN Abs(dx[i]) < relTol * Abs(x[i]) + absTol
          ELSE StepOK(i, relTol, absTol)

\* C4 as stated: changing iea and nothing else never changes the verdict of
\* current_convergence_check on the same vectors.
C4_IeaNeverChangesCurrent ==
    (call.fn = "current" /\ call.changed = "iea") => ret.verdict = prev.verdict

\* C4 as amended: iea is the absolute tolerance of the current check's step
\* test and of nothing else in it, so changing iea leaves the result of
\* current_convergence_check as it was whenever every index passes the step
\* test under both values; likewise vea and voltage_convergence_check.
C4_CrossTolerance ==
    /\ (call.fn = "current" /\ call.changed = "iea"
          /\ StepsPass("current", OldOptions) /\ StepsPass("current", options))
          => ret = prev
    /\ (call.fn = "voltage" /\ call.changed = "vea"
          /\ StepsPass("voltage", OldOptions) /\ StepsPass("voltage", options))
          => ret = prev

\* A current check repeated under another iea, with every step test passed
\* under both values and a residual that fails.
C4_Witness ==
    /\ call.fn = "current" /\ call.changed = "iea" /\ Len(x) = 2
    /\ StepsPass("current", OldOptions) /\ StepsPass("current", options)
    /\ ret = Returned(FALSE, <<>>) /\ prev = ret

\* Changing iea alone changes the verdict of the voltage check (its residual
\* tolerance) ...
C4_IeaChangesVoltage ==
    call.fn = "voltage" /\ call.changed = "iea" /\ ret.verdict # prev.verdict

\* ... and changing vea alone changes the verdict of the current check.
C4_VeaChangesCurrent ==
    call.fn = "current" /\ call.changed = "vea" /\ ret.verdict # prev.verdict

---------------------------------------------------------------------------
(* C7 *)

\* The voltage-side check convergence_check makes (for vectors with a column 0).
VoltageSide ==
    LET X == mat_array(Arg(kind, x))
        DX == mat_array(Arg(kind, dx))
        R == mat_array(Arg(kind, residuum))
    IN voltage_convergence_check(ColSlice(X, call.p), ColSlice(DX, call.p),
                                 ColSlice(R, call.p), options, FALSE)

\* C7: the debug flag of convergence_check changes nothing: the call returns
\* what the call with the other value of debug returns, its detail list is
\* empty, and its verdict is the conjunction of the two sub-checks made in
\* aggregate mode (debug=False).
C7_DebugIgnored ==
    call.fn = "convergence"
        => /\ ret = convergence_check(Arg(kind, x), Arg(kind, dx), Arg(kind, residuum),
                                      call.p, options, ~call.debug)
           /\ ret.detail = <<>>
           /\ ret.err = "" => ret.verdict = (VoltageSide.verdict /\ CurrentSide.verdict)

\* A call with debug=True that returns true where the diagnostic formula, had
\* it been applied to the same (all voltage) vectors, gives false.
C7_Witness ==
    /\ call.fn = "convergence" /\ call.debug /\ kind = "matrix"
    /\ Len(x) = 2 /\ call.p = 2
    /\ ret = Returned(TRUE, <<>>)
    /\ Rerun("voltage", options, TRUE).verdict = FALSE

---------------------------------------------------------------------------
(* C8 *)

Malformed == ~SameLengths \/ call.p < 0 \/ call.p > Len(x)

\* C8: a call of convergence_check with vectors of different lengths, or with a
\* partition index that is negative or greater than the length, ends in an error.
C8_MalformedIsAnError ==
    (call.fn = "convergence" /\ Malformed) => ret.err # ""

\* The narrower statements: an error for each kind of malformed input alone.
C8_IndexOutOfRangeIsAnError ==
    (call.fn = "convergence" /\ SameLengths /\ (call.p < 0 \/ call.p > Len(x)))
        => ret.err # ""

C8_LengthMismatchIsAnError ==
    (call.fn = "convergence" /\ ~SameLengths /\ call.p \in 0..Len(x)) => ret.err # ""

---------------------------------------------------------------------------
(* C9 *)

\* The k-element sub-lists of L, in the order of L
Sublists(L, k) ==
    {[j \in 1..k |-> L[f[j]]] :
        f \in {g \in [1..k -> 1..Len(L)] : \A a, b \in 1..k : a < b => g[a] < g[b]}}

\* C9: the lists that next() returns are k-element sub-lists of L in the order
\* of L, no two of them the same; when StopIteration is raised every sub-list
\* has been returned; every later call raises StopIteration again and returns
\* nothing; and no call raises the constructor's exception.
C9_AllCombinationsOnce ==
    cmb # NoCmb =>
        LET L == cmb[1].L
            k == cmb[1].k
        IN /\ cmbLast # "Exception"
           /\ \A a \in 1..Len(cmbOut) : cmbOut[a] \in Sublists(L, k)
           /\ \A a, b \in 1..Len(cmbOut) : a # b => cmbOut[a] # cmbOut[b]
           /\ cmbStops >= 1 =>
                 /\ {cmbOut[a] : a \in 1..Len(cmbOut)} = Sublists(L, k)
                 /\ Len(cmbOut) = Cardinality(Sublists(L, k))
                 /\ cmbLast = "StopIteration"

\* Under SpecCmbFair: the iteration ends, StopIteration is raised.
C9_EventuallyStops == <>(cmbStops >= 1)

\* The six pairs of a four-element list have been returned and StopIteration
\* was raised twice.
C9_Witness ==
    /\ cmb # NoCmb /\ Len(cmb[1].L) = 4 /\ cmb[1].k = 2
    /\ Len(cmbOut) = 6 /\ cmbStops = 2

---------------------------------------------------------------------------
(* C10 *)

getitem(self, i) ==
    IF self.type = "log" THEN log_axis_iterator_getitem(self, i)
    ELSE lin_axis_iterator_getitem(self, i)

\* What C10 says of an iterator: at most nsteps values are returned, the i-th of
\* them is __getitem__(i), StopIteration comes after exactly nsteps values and
\* is raised again by every later call.
NextAgreesWithGetitem ==
    /\ Len(swpOut) <= swp.nsteps
    /\ \A i \in 1..Len(swpOut) : Some(swpOut[i]) = getitem(swp, i - 1)
    /\ swpStops >= 1 => (Len(swpOut) = swp.nsteps /\ swpLast = "StopIteration")

\* C10: for both sweep iterators, next() and __getitem__ agree.
C10_NextAgreesWithGetitem == swp.type # "none" => NextAgreesWithGetitem

\* The same statement for lin_axis_iterator alone.
C10_LinNextAgreesWithGetitem == swp.type = "lin" => NextAgreesWithGetitem

\* The part of the statement that log_axis_iterator keeps: nsteps values, then
\* StopIteration for good; the i-th value is __getitem__(i) times inc.
C10_LogNextIsOneStepAhead ==
    swp.type = "log" =>
        /\ Len(swpOut) <= swp.nsteps
        /\ \A i \in 1..Len(swpOut) : swpOut[i] = swp.min * Pow(swp.inc, i)
        /\ swpStops >= 1 => (Len(swpOut) = swp.nsteps /\ swpLast = "StopIteration")

====
